---- MODULE Spec2Model ----
(***************************************************************************)
(* Model of the world-state and undo engine of src/main.rs: the layered    *)
(* grid (MapCell, WorldMap), push resolution (WorldMap::move_solid), the   *)
(* delta log (MotionDelta, DeltaFrame, UndoStack) and the tick loop of     *)
(* main.                                                                   *)
(*                                                                         *)
(* Objects live on a heap `objs` (id -> fields); a cell's layer stack      *)
(* holds the ids of the boxes it owns.  Option::None of an object is 0,    *)
(* which new_id never returns.                                             *)
(***************************************************************************)
EXTENDS Integers, Sequences, FiniteSets, TLC

(* ----------------------------- bounds --------------------------------- *)

\* Width and height of the grids Init draws its placements on.
GridW == 4
GridH == 2
\* Largest capacity of the UndoStack (0..MaxDepth on the row layouts; 1 on the
\* others).
MaxDepth == 2
\* Largest capacity of the UndoStack in the history scenarios.
MaxHistoryDepth == 2
\* Most successful moves a history scenario makes before it undoes them.
MaxMoves == 3

\* Most keys held down at once in a tick.
MaxHeld == 2
\* Most moves asked for in the reference scenario.
MaxRefMoves == 5
\* Width in bits of the counter of new_id (usize in the program).
IdBits == 7
\* Most objects constructed, and most deltas in the frame, when the grid's
\* operations are called one by one.
MaxIssued == 3
MaxDeltas == 1
\* Most iterations of move_solid's loop that are followed in one call.
MaxIters == 20

(* ------------------------- program constants -------------------------- *)

\* main's world: WorldMap::new(10, 10, ..) and UndoStack::new(1000)
RefWidth == 10
RefHeight == 10
RefMaxDepth == 1000

ANIMATION_LENGTH == 6
UNDO_COOLDOWN_MAX == 6
NUMBER_OF_LAYERS == 3

\* None of Option<Box<dyn GameObject>>
None == 0
\* None of Option<Keycode>
NoKey == "None"

Layers == {"Floor", "Player", "Solid"}

\* Layer::index
LayerIndex(layer) ==
    CASE layer = "Floor" -> 0
      [] layer = "Player" -> 1
      [] layer = "Solid" -> 2

\* key_movement of main
MoveKeys == {"Left", "Right", "Down", "Up"}

KeyMovement(key) ==
    CASE key = "Left" -> <<-1, 0>>
      [] key = "Right" -> <<1, 0>>
      [] key = "Down" -> <<0, 1>>
      [] key = "Up" -> <<0, -1>>

Dirs == {KeyMovement(k) : k \in MoveKeys}

(* ------------------------------ helpers ------------------------------- *)

\* Vec::remove(index)
RemoveAt(s, i) == SubSeq(s, 1, i - 1) \o SubSeq(s, i + 1, Len(s))

\* The orders in which an iterator over a HashMap/HashSet may yield S.
Orders(S) ==
    {s \in [1..Cardinality(S) -> S] : \A i, j \in 1..Cardinality(S) : s[i] = s[j] => i = j}

(* ------------------------------- new_id ------------------------------- *)

\* The values of the counter: fetch_add wraps around at 2^IdBits
IdModulus == 2 ^ IdBits

\* new_id without the test for 0
NewIdUnchecked(count) ==
    [id |-> count, count |-> (count + 1) % IdModulus, panic |-> FALSE]

\* new_id: fetch_add(1) returns the old value of the counter and increments it
\* (wrapping); the call panics when the value read is 0
NewId(count) ==
    [id |-> count, count |-> (count + 1) % IdModulus, panic |-> count = 0]

(* ------------------------------ objects ------------------------------- *)

\* Player::new, Block::new_block, Block::new_wall (the id comes from new_id)
NewPlayer(id, x, y) == [kind |-> "Player", id |-> id, x |-> x, y |-> y, pushable |-> TRUE]
NewBlock(id, x, y) == [kind |-> "Block", id |-> id, x |-> x, y |-> y, pushable |-> TRUE]
NewWall(id, x, y) == [kind |-> "Block", id |-> id, x |-> x, y |-> y, pushable |-> FALSE]

\* GameObject::get_pos, get_layer
GetPos(obj) == <<obj.x, obj.y>>
GetLayer(obj) == "Solid"

\* pushable() answering true for a wall too
PushableAlways(obj) == TRUE

\* GameObject::pushable
Pushable(obj) == obj.pushable

\* A MotionDelta recording the Floor layer whatever the object's layer is
MotionDeltaFloor(id, x, y, layer, dx, dy) ==
    [type |-> "Motion", id |-> id, x |-> x, y |-> y, layer |-> "Floor", dx |-> dx, dy |-> dy]

\* MotionDelta built by shift_pos: the id, the post-move position, the displacement
MotionDelta(id, x, y, layer, dx, dy) ==
    [type |-> "Motion", id |-> id, x |-> x, y |-> y, layer |-> layer, dx |-> dx, dy |-> dy]

\* shift_pos recording the position before the move instead of the one after
ShiftPosStale(o, id, d, frame) ==
    LET nx == o[id].x + d[1]
        ny == o[id].y + d[2]
    IN [objs |-> [o EXCEPT ![id].x = nx, ![id].y = ny],
        frame |-> Append(frame, MotionDelta(id, o[id].x, o[id].y, GetLayer(o[id]), d[1], d[2]))]

\* shift_pos adding dx to y and dy to x
ShiftPosSwapped(o, id, d, frame) ==
    LET nx == o[id].x + d[2]
        ny == o[id].y + d[1]
    IN [objs |-> [o EXCEPT ![id].x = nx, ![id].y = ny],
        frame |-> Append(frame, MotionDelta(id, nx, ny, GetLayer(o[id]), d[1], d[2]))]

\* DeletionDelta::new: the delta owns the object
DeletionDelta(id) == [type |-> "Deletion", object |-> id]

\* CreationDelta::new: the object's id, position and layer
CreationDelta(obj) ==
    [type |-> "Creation", id |-> obj.id, pos |-> GetPos(obj), layer |-> GetLayer(obj)]

\* GameObject::shift_pos: move the object's own position, append one MotionDelta
ShiftPos(o, id, d, frame) ==
    LET nx == o[id].x + d[1]
        ny == o[id].y + d[2]
    IN [objs |-> [o EXCEPT ![id].x = nx, ![id].y = ny],
        frame |-> Append(frame, MotionDelta(id, nx, ny, GetLayer(o[id]), d[1], d[2]))]

(* ------------------------------ MapCell ------------------------------- *)

\* MapCell::new
CellNew == [i \in 1..NUMBER_OF_LAYERS |-> <<>>]

CellLayer(cell, layer) == cell[LayerIndex(layer) + 1]

\* MapCell::view: the top object of a layer
CellView(cell, layer) ==
    LET s == CellLayer(cell, layer) IN IF s = <<>> THEN None ELSE s[Len(s)]

\* take_id popping the top object of the layer whatever its id
CellTakeIdTop(cell, layer, id) ==
    LET s == CellLayer(cell, layer)
    IN IF s = <<>>
       THEN [obj |-> None, cell |-> cell]
       ELSE [obj |-> s[Len(s)],
             cell |-> [cell EXCEPT ![LayerIndex(layer) + 1] = SubSeq(s, 1, Len(s) - 1)]]

\* MapCell::take_id: linear search, remove the first match
CellTakeId(cell, layer, id) ==
    LET s == CellLayer(cell, layer)
        hits == {i \in 1..Len(s) : s[i] = id}
    IN IF hits = {}
       THEN [obj |-> None, cell |-> cell]
       ELSE LET index == CHOOSE i \in hits : \A j \in hits : i <= j
            IN [obj |-> s[index],
                cell |-> [cell EXCEPT ![LayerIndex(layer) + 1] = RemoveAt(s, index)]]

\* put_quiet pushing the object on its layer twice
CellPutQuietTwice(cell, layer, id) ==
    [cell EXCEPT ![LayerIndex(layer) + 1] = Append(Append(@, id), id)]

\* MapCell::put_quiet
CellPutQuiet(cell, layer, id) ==
    [cell EXCEPT ![LayerIndex(layer) + 1] = Append(@, id)]

\* MapCell::take: pop the top object of a layer
CellTake(cell, layer) ==
    LET s == CellLayer(cell, layer)
    IN IF s = <<>>
       THEN [obj |-> None, cell |-> cell]
       ELSE [obj |-> s[Len(s)],
             cell |-> [cell EXCEPT ![LayerIndex(layer) + 1] = SubSeq(s, 1, Len(s) - 1)]]

\* MapCell::delete: pop the top object of a layer into a DeletionDelta
CellDelete(cell, layer, frame) ==
    LET t == CellTake(cell, layer)
    IN IF t.obj = None
       THEN [ret |-> FALSE, cell |-> cell, frame |-> frame]
       ELSE [ret |-> TRUE, cell |-> t.cell, frame |-> Append(frame, DeletionDelta(t.obj))]

\* MapCell::delete_id: remove the first object with this id into a DeletionDelta
CellDeleteId(cell, layer, id, frame) ==
    LET t == CellTakeId(cell, layer, id)
    IN IF t.obj = None
       THEN [ret |-> FALSE, cell |-> cell, frame |-> frame]
       ELSE [ret |-> TRUE, cell |-> t.cell, frame |-> Append(frame, DeletionDelta(t.obj))]

\* MapCell::put: record a CreationDelta, then push the object on its layer
CellPut(cell, obj, frame) ==
    [cell |-> [cell EXCEPT ![LayerIndex(GetLayer(obj)) + 1] = Append(@, obj.id)],
     frame |-> Append(frame, CreationDelta(obj))]

(* ------------------------------ WorldMap ------------------------------ *)

\* WorldMap::new
WorldMapNew(width, height, player) ==
    [width |-> width, height |-> height,
     map |-> [p \in (0..width - 1) \X (0..height - 1) |-> CellNew],
     player |-> player]

\* WorldMap::invalid
Invalid(wm, x, y) == x < 0 \/ x >= wm.width \/ y < 0 \/ y >= wm.height

\* WorldMap::get_player_pos, get_player_id: reads through the player pointer
GetPlayerPos(wm, o) == GetPos(o[wm.player])
GetPlayerId(wm, o) == o[wm.player].id

\* view seeing no object anywhere
ViewNone(wm, x, y, layer) == None

\* WorldMap::view
View(wm, x, y, layer) ==
    IF Invalid(wm, x, y) THEN None ELSE CellView(wm.map[<<x, y>>], layer)

\* WorldMap::take_id
TakeId(wm, x, y, layer, id) ==
    IF Invalid(wm, x, y)
    THEN [obj |-> None, wm |-> wm]
    ELSE LET r == CellTakeId(wm.map[<<x, y>>], layer, id)
         IN [obj |-> r.obj, wm |-> [wm EXCEPT !.map[<<x, y>>] = r.cell]]

\* put_quiet returning without a panic when the position is out of bounds
PutQuietSilent(wm, o, id) ==
    LET x == o[id].x
        y == o[id].y
    IN IF Invalid(wm, x, y)
       THEN [panic |-> FALSE, wm |-> wm]
       ELSE [panic |-> FALSE,
             wm |-> [wm EXCEPT !.map[<<x, y>>] = CellPutQuiet(@, GetLayer(o[id]), id)]]

\* WorldMap::put_quiet: panics when the object's own position is out of bounds
PutQuiet(wm, o, id) ==
    LET x == o[id].x
        y == o[id].y
    IN IF Invalid(wm, x, y)
       THEN [panic |-> TRUE, wm |-> wm]
       ELSE [panic |-> FALSE,
             wm |-> [wm EXCEPT !.map[<<x, y>>] = CellPutQuiet(@, GetLayer(o[id]), id)]]

\* WorldMap::put: panics when the object's own position is out of bounds
Put(wm, o, id, frame) ==
    LET x == o[id].x
        y == o[id].y
    IN IF Invalid(wm, x, y)
       THEN [panic |-> TRUE, wm |-> wm, frame |-> frame]
       ELSE LET r == CellPut(wm.map[<<x, y>>], o[id], frame)
            IN [panic |-> FALSE, wm |-> [wm EXCEPT !.map[<<x, y>>] = r.cell],
                frame |-> r.frame]

\* WorldMap::take
Take(wm, x, y, layer) ==
    IF Invalid(wm, x, y)
    THEN [obj |-> None, wm |-> wm]
    ELSE LET r == CellTake(wm.map[<<x, y>>], layer)
         IN [obj |-> r.obj, wm |-> [wm EXCEPT !.map[<<x, y>>] = r.cell]]

\* WorldMap::delete
Delete(wm, x, y, layer, frame) ==
    IF Invalid(wm, x, y)
    THEN [ret |-> FALSE, wm |-> wm, frame |-> frame]
    ELSE LET r == CellDelete(wm.map[<<x, y>>], layer, frame)
         IN [ret |-> r.ret, wm |-> [wm EXCEPT !.map[<<x, y>>] = r.cell], frame |-> r.frame]

\* WorldMap::delete_id
DeleteId(wm, x, y, layer, id, frame) ==
    IF Invalid(wm, x, y)
    THEN [ret |-> FALSE, wm |-> wm, frame |-> frame]
    ELSE LET r == CellDeleteId(wm.map[<<x, y>>], layer, id, frame)
         IN [ret |-> r.ret, wm |-> [wm EXCEPT !.map[<<x, y>>] = r.cell], frame |-> r.frame]

(* ----------------------- WorldMap::move_solid ------------------------- *)

\* One iteration of the while loop that puts the position it popped back on
\* to_check, under the one it pushes
LoopBodyRepush(wm, o, d, to_move, to_check) ==
    LET p == to_check[Len(to_check)]
        rest == SubSeq(to_check, 1, Len(to_check) - 1)
        qx == p[1] + d[1]
        qy == p[2] + d[2]
    IN IF <<qx, qy>> \in DOMAIN to_move
       THEN [ret |-> "continue", to_move |-> to_move, to_check |-> rest]
       ELSE IF Invalid(wm, qx, qy)
       THEN [ret |-> "false", to_move |-> to_move, to_check |-> rest]
       ELSE LET v == View(wm, qx, qy, "Solid")
            IN IF v = None
               THEN [ret |-> "continue", to_move |-> to_move, to_check |-> rest]
               ELSE IF Pushable(o[v])
               THEN [ret |-> "continue",
                     to_move |-> to_move @@ (<<qx, qy>> :> o[v].id),
                     to_check |-> Append(Append(rest, p), <<qx, qy>>)]
               ELSE [ret |-> "false", to_move |-> to_move, to_check |-> rest]

\* One iteration of the while loop of move_solid: pop a position, skip it when
\* the position ahead is a key of to_move, return false when that position is
\* out of bounds or holds an object that is not pushable, insert and push it
\* when it holds a pushable one
LoopBody(wm, o, d, to_move, to_check) ==
    LET p == to_check[Len(to_check)]
        rest == SubSeq(to_check, 1, Len(to_check) - 1)
        qx == p[1] + d[1]
        qy == p[2] + d[2]
    IN IF <<qx, qy>> \in DOMAIN to_move
       THEN [ret |-> "continue", to_move |-> to_move, to_check |-> rest]
       ELSE IF Invalid(wm, qx, qy)
       THEN [ret |-> "false", to_move |-> to_move, to_check |-> rest]
       ELSE LET v == View(wm, qx, qy, "Solid")
            IN IF v = None
               THEN [ret |-> "continue", to_move |-> to_move, to_check |-> rest]
               ELSE IF Pushable(o[v])
               THEN [ret |-> "continue",
                     to_move |-> to_move @@ (<<qx, qy>> :> o[v].id),
                     to_check |-> Append(rest, <<qx, qy>>)]
               ELSE [ret |-> "false", to_move |-> to_move, to_check |-> rest]

\* The while loop over to_check (a Vec used as a stack); to_move maps the
\* positions that will move to the id found there.  iters counts iterations.
RECURSIVE ResolveLoop(_, _, _, _, _, _)
ResolveLoop(wm, o, d, to_move, to_check, iters) ==
    IF to_check = <<>>
    THEN [ok |-> TRUE, to_move |-> to_move, iters |-> iters]
    ELSE LET p == to_check[Len(to_check)]
             rest == SubSeq(to_check, 1, Len(to_check) - 1)
             qx == p[1] + d[1]
             qy == p[2] + d[2]
         IN IF <<qx, qy>> \in DOMAIN to_move
            THEN ResolveLoop(wm, o, d, to_move, rest, iters + 1)
            ELSE IF Invalid(wm, qx, qy)
            THEN [ok |-> FALSE, to_move |-> to_move, iters |-> iters + 1]
            ELSE LET v == View(wm, qx, qy, "Solid")
                 IN IF v = None
                    THEN ResolveLoop(wm, o, d, to_move, rest, iters + 1)
                    ELSE IF Pushable(o[v])
                    THEN ResolveLoop(wm, o, d, to_move @@ (<<qx, qy>> :> o[v].id),
                                     Append(rest, <<qx, qy>>), iters + 1)
                    ELSE [ok |-> FALSE, to_move |-> to_move, iters |-> iters + 1]

\* The check phase of move_solid, seeded with the player's position and id
Resolve(wm, o, d) ==
    ResolveLoop(wm, o, d, GetPlayerPos(wm, o) :> GetPlayerId(wm, o),
                <<GetPlayerPos(wm, o)>>, 0)

\* The commit loop body putting the object back before it shifts it
CommitOnePutFirst(st, p, id, d) ==
    LET t == TakeId(st.wm, p[1], p[2], "Solid", id)
    IN IF t.obj = None
       THEN [st EXCEPT !.panic = TRUE]
       ELSE LET q == PutQuiet(t.wm, st.objs, t.obj)
                s == ShiftPos(st.objs, t.obj, d, st.frame)
            IN [wm |-> q.wm, objs |-> s.objs, frame |-> s.frame, panic |-> q.panic]

\* One iteration of the commit loop: take_id(..).unwrap(), shift_pos, put_quiet
CommitOne(st, p, id, d) ==
    LET t == TakeId(st.wm, p[1], p[2], "Solid", id)
    IN IF t.obj = None
       THEN [st EXCEPT !.panic = TRUE]
       ELSE LET s == ShiftPos(st.objs, t.obj, d, st.frame)
                q == PutQuiet(t.wm, s.objs, t.obj)
            IN [wm |-> q.wm, objs |-> s.objs, frame |-> s.frame, panic |-> q.panic]

\* The commit loop: to_move.into_iter() yields the entries in `order`
RECURSIVE CommitLoop(_, _, _, _, _)
CommitLoop(st, to_move, order, i, d) ==
    IF i > Len(order) \/ st.panic
    THEN st
    ELSE CommitLoop(CommitOne(st, order[i], to_move[order[i]], d), to_move, order, i + 1, d)

\* The orders the commit loop of move_solid may take for direction d
CommitOrders(wm, o, d) ==
    LET r == Resolve(wm, o, d) IN IF r.ok THEN Orders(DOMAIN r.to_move) ELSE {<<>>}

\* move_solid without the early returns: whatever the check phase had collected
\* when it met the obstacle is moved all the same
MoveSolidNoReturn(wm, o, d, frame, order) ==
    LET r == Resolve(wm, o, d)
        st0 == [wm |-> wm, objs |-> o, frame |-> frame, panic |-> FALSE]
        some == CHOOSE s \in Orders(DOMAIN r.to_move) : TRUE
    IN [ret |-> r.ok,
        st |-> CommitLoop(st0, r.to_move, IF r.ok THEN order ELSE some, 1, d)]

\* WorldMap::move_solid((dx, dy), delta) with the HashMap iterating in `order`
MoveSolid(wm, o, d, frame, order) ==
    LET r == Resolve(wm, o, d)
        st0 == [wm |-> wm, objs |-> o, frame |-> frame, panic |-> FALSE]
    IN IF ~r.ok
       THEN [ret |-> FALSE, st |-> st0]
       ELSE [ret |-> TRUE, st |-> CommitLoop(st0, r.to_move, order, 1, d)]

(* ------------------------------ deltas -------------------------------- *)

\* DeltaFrame::new
FrameNew == <<>>

\* trivial() answering false for an empty frame too
TrivialNever(frame) == FALSE

\* DeltaFrame::trivial
Trivial(frame) == frame = <<>>

\* MotionDelta::revert shifting by (dx, dy) again instead of by its inverse
MotionRevertForward(delta, st) ==
    LET t == TakeId(st.wm, delta.x, delta.y, delta.layer, delta.id)
    IN IF t.obj = None
       THEN [st EXCEPT !.panic = TRUE]
       ELSE LET s == ShiftPos(st.objs, t.obj, <<delta.dx, delta.dy>>, FrameNew)
                q == PutQuiet(t.wm, s.objs, t.obj)
            IN [wm |-> q.wm, objs |-> s.objs, panic |-> q.panic]

\* MotionDelta::revert: take the object by id at the recorded position, shift it
\* back (into a dummy redo frame), put it back quietly
MotionRevert(delta, st) ==
    LET t == TakeId(st.wm, delta.x, delta.y, delta.layer, delta.id)
    IN IF t.obj = None
       THEN [st EXCEPT !.panic = TRUE]
       ELSE LET s == ShiftPos(st.objs, t.obj, <<-delta.dx, -delta.dy>>, FrameNew)
                q == PutQuiet(t.wm, s.objs, t.obj)
            IN [wm |-> q.wm, objs |-> s.objs, panic |-> q.panic]

\* Dropping a box: the object leaves the heap
DropObj(o, id) == [i \in DOMAIN o \ {id} |-> o[i]]

\* DeletionDelta::revert giving up the object without putting it back
DeletionRevertLost(delta, st) == st

\* DeletionDelta::revert: put the owned object back quietly (once)
DeletionRevert(delta, st) ==
    IF delta.object = None
    THEN st
    ELSE LET q == PutQuiet(st.wm, st.objs, delta.object)
         IN [wm |-> q.wm, objs |-> st.objs, panic |-> q.panic]

\* CreationDelta::revert taking the object by the recorded id
CreationRevertById(delta, st) ==
    LET t == TakeId(st.wm, delta.pos[1], delta.pos[2], delta.layer, delta.id)
    IN IF t.obj = None
       THEN st
       ELSE [wm |-> t.wm, objs |-> DropObj(st.objs, t.obj), panic |-> st.panic]

\* CreationDelta::revert: take the top object of the recorded layer at the
\* recorded position, whatever it is, and drop it
CreationRevert(delta, st) ==
    LET t == Take(st.wm, delta.pos[1], delta.pos[2], delta.layer)
    IN IF t.obj = None
       THEN st
       ELSE [wm |-> t.wm, objs |-> DropObj(st.objs, t.obj), panic |-> st.panic]

\* Delta::revert, by variant
DeltaRevert(delta, st) ==
    CASE delta.type = "Motion" -> MotionRevert(delta, st)
      [] delta.type = "Deletion" -> DeletionRevert(delta, st)
      [] delta.type = "Creation" -> CreationRevert(delta, st)

\* DeltaFrame::revert stopping after the first delta
FrameRevertFirstOnly(frame, i, st) ==
    IF frame = <<>> THEN st ELSE DeltaRevert(frame[1], st)

\* DeltaFrame::revert: the deltas in insertion order
RECURSIVE FrameRevertFrom(_, _, _)
FrameRevertFrom(frame, i, st) ==
    IF i > Len(frame) \/ st.panic
    THEN st
    ELSE FrameRevertFrom(frame, i + 1, DeltaRevert(frame[i], st))

FrameRevert(frame, st) == FrameRevertFrom(frame, 1, st)

(* ----------------------------- UndoStack ------------------------------ *)

\* UndoStack::new; the front of the VecDeque is the head of the sequence
UndoStackNew(max_depth) == [stack |-> <<>>, max_depth |-> max_depth, size |-> 0]

\* VecDeque::pop_back
PopBack(s) == IF s = <<>> THEN s ELSE SubSeq(s, 1, Len(s) - 1)

\* UndoStack::push dropping at the front: at capacity the newest frame goes
UndoPushDropNewest(us, frame) ==
    IF us.size = us.max_depth
    THEN [us EXCEPT !.stack = <<frame>> \o (IF us.stack = <<>> THEN <<>> ELSE Tail(us.stack))]
    ELSE [us EXCEPT !.stack = <<frame>> \o us.stack, !.size = us.size + 1]

\* UndoStack::push
UndoPush(us, frame) ==
    IF us.size = us.max_depth
    THEN [us EXCEPT !.stack = <<frame>> \o PopBack(us.stack)]
    ELSE [us EXCEPT !.stack = <<frame>> \o us.stack, !.size = us.size + 1]

\* UndoStack::pop guarded by size >= 0: it pops an empty deque too
UndoPopUnguarded(us, st) ==
    IF us.stack = <<>>
    THEN [us |-> us, st |-> [st EXCEPT !.panic = TRUE]]
    ELSE LET r == FrameRevert(Head(us.stack), st)
         IN [us |-> [us EXCEPT !.stack = Tail(us.stack),
                               !.size = IF r.panic THEN us.size ELSE us.size - 1],
             st |-> r]

\* UndoStack::pop: pop_front().unwrap().revert(map), then size -= 1
UndoPop(us, st) ==
    IF us.size > 0
    THEN IF us.stack = <<>>
         THEN [us |-> us, st |-> [st EXCEPT !.panic = TRUE]]
         ELSE LET r == FrameRevert(Head(us.stack), st)
              IN [us |-> [us EXCEPT !.stack = Tail(us.stack),
                                    !.size = IF r.panic THEN us.size ELSE us.size - 1],
                  st |-> r]
    ELSE [us |-> us, st |-> st]

(* ------------------------------- state -------------------------------- *)

VARIABLES
    world_map,              \* WorldMap: width, height, map, player
    objs,                   \* the objects the grid (or a delta) owns, by id
    undo_stack,             \* UndoStack: stack, max_depth, size
    cur_delta_frame,        \* the DeltaFrame of the current step
    panicked,               \* TRUE once an unwrap or put_quiet has panicked
    ID_COUNT,               \* the static counter new_id reads and increments
    issued,                 \* the ids new_id has returned so far, in order
    anim_state,             \* <<"Ready">> or <<"Wait", n>>
    undo_cooldown,
    buffered_motion_key,
    buffered_motion_fresh,
    prev_keys,
    call,                   \* what the last step did: op, dir, ret, popped, deltas
    trail,                  \* history scenario: the grid at the start and after each
                            \* successful move; <<>> outside a scenario
    undone,                 \* history scenario: undo steps taken after the moves
    log,                    \* reference scenario: the moves asked for, with their results
    since,                  \* tick loop: ticks since the last successful move (capped)
    to_move,                \* move_solid's HashMap while a call is followed step by step
    to_check,               \* move_solid's work list during such a call
    loop                    \* such a call: where it is (pc), its direction, the
                            \* iterations made, the positions pushed on to_check

vars == <<world_map, objs, undo_stack, cur_delta_frame, panicked, ID_COUNT, issued,
          anim_state,
          undo_cooldown, buffered_motion_key, buffered_motion_fresh, prev_keys, call,
          trail, undone, log, since, to_move, to_check, loop>>

\* The locals of a move_solid call followed step by step
loopVars == <<to_move, to_check, loop>>

tickVars == <<anim_state, undo_cooldown, buffered_motion_key, buffered_motion_fresh,
              prev_keys>>

\* call.op: "none", "move" (a move step), "undo" (an undo step), "tick" (an
\* iteration of main's loop); attempted: move_solid was called, with result ret;
\* undo: UndoStack::pop was called, and popped a frame (popped) of `deltas` deltas
\* (for a move: the deltas of the frame it filled)
NoCall ==
    [op |-> "none", dir |-> <<0, 0>>, attempted |-> FALSE, ret |-> FALSE,
     undo |-> FALSE, popped |-> FALSE, deltas |-> 0]

\* No move_solid call is being followed
LoopIdle == [pc |-> "idle", d |-> <<0, 0>>, iters |-> 0, pushed |-> <<>>, ret |-> FALSE]

InitLoop ==
    /\ to_move = <<>>
    /\ to_check = <<>>
    /\ loop = LoopIdle

\* The log of the reference scenario is kept only where it was switched on
NoLog == [on |-> FALSE, moves |-> <<>>]
LogAfterMove(d, ret) ==
    IF log.on THEN [log EXCEPT !.moves = Append(@, [dir |-> d, ret |-> ret])] ELSE log

(* --------------------------- construction ----------------------------- *)

\* The heap after main's constructors: ids are handed out by new_id from 1, in
\* the order player, walls, blocks
BuildObjs(player, walls, blocks) ==
    [id \in 1..(1 + Len(walls) + Len(blocks)) |->
        IF id = 1 THEN NewPlayer(id, player[1], player[2])
        ELSE IF id <= 1 + Len(walls)
        THEN NewWall(id, walls[id - 1][1], walls[id - 1][2])
        ELSE NewBlock(id, blocks[id - 1 - Len(walls)][1], blocks[id - 1 - Len(walls)][2])]

\* The counter after the constructors (one new_id each, from 1), and the ids
\* they were given
IdAfter(o) == (1 + Cardinality(DOMAIN o)) % IdModulus
IssuedFor(o) == [i \in 1..Cardinality(DOMAIN o) |-> i]

\* world_map.put_quiet(..) of every constructed object, in id order
RECURSIVE PlaceAll(_, _, _)
PlaceAll(wm, o, id) ==
    IF id \notin DOMAIN o THEN wm ELSE PlaceAll(PutQuiet(wm, o, id).wm, o, id + 1)

\* main's setup: WorldMap::new(width, height, &player), then the put_quiet calls
BuildWorld(width, height, o) == PlaceAll(WorldMapNew(width, height, 1), o, 1)

Cells(width, height) == (0..width - 1) \X (0..height - 1)

\* The injective maps of 1..n into S: n objects on distinct cells of S
Distinct(n, S) == {pl \in [1..n -> S] : \A i, j \in 1..n : pl[i] = pl[j] => i = j}

\* Row layouts: a player with a wall and a block, two blocks, or a wall and two
\* blocks, all along the row y = 0
RowLayouts(width) ==
    {[player |-> pl[1], walls |-> <<pl[2]>>, blocks |-> <<pl[3], pl[4]>>] :
        pl \in Distinct(4, Cells(width, 1))}
    \cup {[player |-> pl[1], walls |-> <<pl[2]>>, blocks |-> <<pl[3]>>] :
        pl \in Distinct(3, Cells(width, 1))}
    \cup {[player |-> pl[1], walls |-> <<>>, blocks |-> <<pl[2], pl[3]>>] :
        pl \in Distinct(3, Cells(width, 1))}

\* Initial placements: a player, a wall or a block, and a block anywhere on
\* the grid; and the row layouts
Layouts(width, height) ==
    {[player |-> pl[1], walls |-> <<pl[2]>>, blocks |-> <<pl[3]>>] :
        pl \in Distinct(3, Cells(width, height))}
    \cup {[player |-> pl[1], walls |-> <<>>, blocks |-> <<pl[2], pl[3]>>] :
        pl \in Distinct(3, Cells(width, height))}
    \cup RowLayouts(width)

\* Initial placements of the history scenarios: two blocks in line with the
\* player; a block and, one cell further, a wall; a free block on the row below
HistoryLayouts ==
    {[player |-> <<0, 0>>, walls |-> <<>>, blocks |-> <<<<1, 0>>, <<2, 0>>>>],
     [player |-> <<0, 0>>, walls |-> <<<<3, 0>>>>, blocks |-> <<<<1, 0>>>>],
     [player |-> <<1, 0>>, walls |-> <<<<0, 1>>>>, blocks |-> <<<<1, 1>>, <<2, 0>>>>]}

Snapshot(wm, o) == [wm |-> wm, objs |-> o]

InitTick ==
    /\ anim_state = <<"Ready">>
    /\ undo_cooldown = 0
    /\ buffered_motion_key = NoKey
    /\ buffered_motion_fresh = FALSE
    /\ prev_keys = {}

Init ==
    /\ \E l \in Layouts(GridW, GridH), max_depth \in 0..MaxDepth :
          /\ max_depth = 1 \/ l \in RowLayouts(GridW)
          /\ objs = BuildObjs(l.player, l.walls, l.blocks)
          /\ world_map = BuildWorld(GridW, GridH, objs)
          /\ undo_stack = UndoStackNew(max_depth)
    /\ cur_delta_frame = FrameNew
    /\ panicked = FALSE
    /\ ID_COUNT = IdAfter(objs)
    /\ issued = IssuedFor(objs)
    /\ InitLoop
    /\ call = NoCall
    /\ trail = <<>>
    /\ undone = 0
    /\ log = NoLog
    /\ since = ANIMATION_LENGTH + 1
    /\ InitTick

\* The history scenarios: a run of moves followed by a run of undos
InitHistory ==
    /\ \E l \in HistoryLayouts :
          /\ objs = BuildObjs(l.player, l.walls, l.blocks)
          /\ world_map = BuildWorld(GridW, GridH + 1, objs)
    /\ \E max_depth \in 0..MaxHistoryDepth : undo_stack = UndoStackNew(max_depth)
    /\ cur_delta_frame = FrameNew
    /\ panicked = FALSE
    /\ ID_COUNT = IdAfter(objs)
    /\ issued = IssuedFor(objs)
    /\ InitLoop
    /\ call = NoCall
    /\ trail = <<Snapshot(world_map, objs)>>
    /\ undone = 0
    /\ log = NoLog
    /\ since = ANIMATION_LENGTH + 1
    /\ InitTick

\* main's own placement: the player at (3,3), a wall at (5,5), a block at (8,4)
RefLayout == [player |-> <<3, 3>>, walls |-> <<<<5, 5>>>>, blocks |-> <<<<8, 4>>>>]

\* The reference scenario: main's world, and a log of the moves asked for
InitRef ==
    /\ objs = BuildObjs(RefLayout.player, RefLayout.walls, RefLayout.blocks)
    /\ world_map = BuildWorld(RefWidth, RefHeight, objs)
    /\ undo_stack = UndoStackNew(RefMaxDepth)
    /\ cur_delta_frame = FrameNew
    /\ panicked = FALSE
    /\ ID_COUNT = IdAfter(objs)
    /\ issued = IssuedFor(objs)
    /\ InitLoop
    /\ call = NoCall
    /\ trail = <<>>
    /\ undone = 0
    /\ log = [on |-> TRUE, moves |-> <<>>]
    /\ since = ANIMATION_LENGTH + 1
    /\ InitTick

\* The placement of the tick loop's model: the player and a block on a grid
\* of three by two cells
TickLayout == [player |-> <<0, 0>>, walls |-> <<>>, blocks |-> <<<<1, 0>>>>]

InitMain ==
    /\ objs = BuildObjs(TickLayout.player, TickLayout.walls, TickLayout.blocks)
    /\ world_map = BuildWorld(3, 2, objs)
    /\ undo_stack = UndoStackNew(1)
    /\ cur_delta_frame = FrameNew
    /\ panicked = FALSE
    /\ ID_COUNT = IdAfter(objs)
    /\ issued = IssuedFor(objs)
    /\ InitLoop
    /\ call = NoCall
    /\ trail = <<>>
    /\ undone = 0
    /\ log = NoLog
    /\ since = ANIMATION_LENGTH + 1
    /\ InitTick

(* ------------------------------ actions ------------------------------- *)

\* The scenario after a move step: a successful move extends the trail, and
\* ends the scenario when undos were taken already or the trail is full
TrailAfterMove(ret, wm, o) ==
    IF trail = <<>> \/ ~ret
    THEN trail
    ELSE IF undone = 0 /\ Len(trail) <= MaxMoves
    THEN Append(trail, Snapshot(wm, o))
    ELSE <<>>

\* One move step of the caller: a fresh frame, move_solid, and the push of the
\* frame when it is not trivial
MoveStep(d) ==
    /\ ~panicked
    /\ \E order \in CommitOrders(world_map, objs, d) :
          LET r == MoveSolid(world_map, objs, d, FrameNew, order)
          IN /\ world_map' = r.st.wm
             /\ objs' = r.st.objs
             /\ cur_delta_frame' = r.st.frame
             /\ panicked' = r.st.panic
             /\ undo_stack' = IF ~r.st.panic /\ ~Trivial(r.st.frame)
                              THEN UndoPush(undo_stack, r.st.frame)
                              ELSE undo_stack
             /\ call' = [op |-> "move", dir |-> d, attempted |-> TRUE, ret |-> r.ret,
                         undo |-> FALSE, popped |-> FALSE, deltas |-> Len(r.st.frame)]
             /\ trail' = TrailAfterMove(r.ret, r.st.wm, r.st.objs)
             /\ log' = LogAfterMove(d, r.ret)
    /\ undone' = IF trail' = <<>> THEN 0 ELSE undone
    /\ UNCHANGED <<tickVars, since, ID_COUNT, issued, loopVars>>

\* One undo step of the caller: undo_stack.pop(&mut world_map)
UndoStep ==
    /\ ~panicked
    /\ LET r == UndoPop(undo_stack, [wm |-> world_map, objs |-> objs, panic |-> FALSE])
       IN /\ world_map' = r.st.wm
          /\ objs' = r.st.objs
          /\ panicked' = r.st.panic
          /\ undo_stack' = r.us
          /\ call' = [op |-> "undo", dir |-> <<0, 0>>, attempted |-> FALSE, ret |-> FALSE,
                      undo |-> TRUE, popped |-> undo_stack.size > 0,
                      deltas |-> IF undo_stack.size > 0 /\ undo_stack.stack # <<>>
                                 THEN Len(Head(undo_stack.stack)) ELSE 0]
    /\ cur_delta_frame' = FrameNew
    /\ undone' = IF trail = <<>> THEN 0 ELSE undone + 1
    /\ UNCHANGED <<trail, log, since, tickVars, ID_COUNT, issued, loopVars>>

(* ------------------------- main's loop: a tick ------------------------ *)

\* The keys the loop looks at
Keys == MoveKeys \cup {"Z"}

Ready == <<"Ready">>
Wait(n) == <<"Wait", n>>

\* The Wait arm going back to Ready at once
WaitStepSkip(n) == Ready

\* The Wait arm of the match: Wait(n) with n > 0 counts down, Wait(0) ends
WaitStep(n) == IF n > 0 THEN Wait(n - 1) ELSE Ready

\* The buffered key after the loop over new_keys: the new movement key the
\* HashSet yields last, whichever that is, and it is then fresh
BufferedAfterNew(new_keys) ==
    IF new_keys \cap MoveKeys = {}
    THEN {[key |-> buffered_motion_key, fresh |-> buffered_motion_fresh]}
    ELSE {[key |-> k, fresh |-> TRUE] : k \in new_keys \cap MoveKeys}

\* The Ready arm's refresh: a stale key that is no longer held is replaced by
\* the held movement key that key_movement yields last (None if none is held)
BufferedAfterRefresh(b, keys) ==
    IF ~b.fresh /\ (b.key = NoKey \/ b.key \notin keys)
    THEN IF keys \cap MoveKeys = {} THEN {NoKey} ELSE keys \cap MoveKeys
    ELSE {b.key}

\* The undo test with the cooldown ignored: a held Z pops in every tick
UndoRequestedHeld(keys, new_keys, cooldown) == "Z" \in keys

\* Whether the tick calls undo_stack.pop: Z newly pressed, or held with the
\* cooldown at 0
UndoRequested(keys, new_keys, cooldown) ==
    \/ "Z" \in new_keys
    \/ "Z" \in keys /\ cooldown = 0

\* The tick from the push of the frame on: push when not trivial, the undo
\* test and pop, the cooldown's decrement, prev_keys = keys.  m is the outcome
\* of the match on anim_state.
TickRest(keys, new_keys, m) ==
    IF m.st.panic
    THEN /\ panicked' = TRUE
         /\ world_map' = m.st.wm
         /\ objs' = m.st.objs
         /\ cur_delta_frame' = m.st.frame
         /\ call' = [op |-> "tick", dir |-> m.dir, attempted |-> m.attempted,
                     ret |-> m.ret, undo |-> FALSE, popped |-> FALSE,
                     deltas |-> Len(m.st.frame)]
         /\ UNCHANGED <<undo_stack, tickVars, since>>
    ELSE LET pushed == IF ~Trivial(m.st.frame)
                       THEN UndoPush(undo_stack, m.st.frame)
                       ELSE undo_stack
             undo == UndoRequested(keys, new_keys, m.cooldown)
             r == IF undo
                  THEN UndoPop(pushed, [wm |-> m.st.wm, objs |-> m.st.objs, panic |-> FALSE])
                  ELSE [us |-> pushed,
                        st |-> [wm |-> m.st.wm, objs |-> m.st.objs, panic |-> FALSE]]
             cooldown == IF undo THEN UNDO_COOLDOWN_MAX ELSE m.cooldown
         IN /\ world_map' = r.st.wm
            /\ objs' = r.st.objs
            /\ panicked' = r.st.panic
            /\ undo_stack' = r.us
            /\ cur_delta_frame' = m.st.frame
            /\ anim_state' = m.anim
            /\ buffered_motion_key' = m.key
            /\ buffered_motion_fresh' = m.fresh
            /\ undo_cooldown' = IF cooldown > 0 THEN cooldown - 1 ELSE cooldown
            /\ prev_keys' = keys
            /\ call' = [op |-> "tick", dir |-> m.dir, attempted |-> m.attempted,
                        ret |-> m.ret, undo |-> undo,
                        popped |-> undo /\ pushed.size > 0,
                        deltas |-> Len(m.st.frame)]
            /\ since' = IF m.attempted /\ m.ret
                         THEN 0
                         ELSE IF since <= ANIMATION_LENGTH THEN since + 1 ELSE since

\* One iteration of main's loop with `keys` held down (no quit event)
Tick(keys) ==
    /\ ~panicked
    /\ LET new_keys == keys \ prev_keys
           st0 == [wm |-> world_map, objs |-> objs, frame |-> FrameNew, panic |-> FALSE]
       IN \E b \in BufferedAfterNew(new_keys) :
             IF anim_state = Ready
             THEN \E key \in BufferedAfterRefresh(b, keys) :
                     IF key # NoKey
                     THEN \E order \in CommitOrders(world_map, objs, KeyMovement(key)) :
                             LET r == MoveSolid(world_map, objs, KeyMovement(key),
                                                FrameNew, order)
                             IN TickRest(keys, new_keys,
                                         [st |-> r.st, dir |-> KeyMovement(key),
                                          attempted |-> TRUE, ret |-> r.ret, key |-> key,
                                          fresh |-> IF r.ret THEN FALSE ELSE b.fresh,
                                          anim |-> IF r.ret THEN Wait(ANIMATION_LENGTH)
                                                   ELSE Ready,
                                          cooldown |-> IF r.ret THEN 0 ELSE undo_cooldown])
                     ELSE TickRest(keys, new_keys,
                                   [st |-> st0, dir |-> <<0, 0>>, attempted |-> FALSE,
                                    ret |-> FALSE, key |-> key, fresh |-> b.fresh,
                                    anim |-> Ready, cooldown |-> undo_cooldown])
             ELSE TickRest(keys, new_keys,
                           [st |-> st0, dir |-> <<0, 0>>, attempted |-> FALSE,
                            ret |-> FALSE, key |-> b.key, fresh |-> b.fresh,
                            anim |-> WaitStep(anim_state[2]), cooldown |-> undo_cooldown])
    /\ UNCHANGED <<trail, undone, log, ID_COUNT, issued, loopVars>>

(* ------------------- the grid's operations, one by one ---------------- *)

\* The ids a cell holds in any layer, and the ids the grid holds
CellIds(cell) == UNION {{cell[l][i] : i \in 1..Len(cell[l])} : l \in 1..NUMBER_OF_LAYERS}
GridIds(wm) == UNION {CellIds(wm.map[q]) : q \in DOMAIN wm.map}

\* The objects a DeletionDelta of the frame owns
FrameIds(frame) ==
    {frame[i].object : i \in {j \in 1..Len(frame) : frame[j].type = "Deletion"}} \ {None}

\* The objects the caller owns: in the heap, neither in the grid nor in a delta
Held == DOMAIN objs \ (GridIds(world_map) \cup FrameIds(cur_delta_frame))

\* The coordinates the operations are called with: the cells of the grid, a
\* position left of it (x < 0), one right of it (x = width) and one below it
\* (y = height)
Coords(wm) ==
    Cells(wm.width, wm.height)
    \cup {<<-1, 0>>, <<wm.width, wm.height - 1>>, <<wm.width - 1, wm.height>>}

\* The positions objects are constructed at: a cell, or just outside the grid
NewPositions(wm) == Cells(wm.width, wm.height) \cup {<<wm.width, wm.height - 1>>}

\* What an operation did: the object or id it returned (obj), its boolean
\* result (ret) and, for revert, the frame it reverted
OpCall(op, obj, ret) == [op |-> op, obj |-> obj, ret |-> ret, frame |-> <<>>]

\* main's player, constructed and not yet placed, and WorldMap::new on a grid
\* of two by one cells
InitOps ==
    /\ objs = BuildObjs(<<0, 0>>, <<>>, <<>>)
    /\ world_map = WorldMapNew(2, 1, 1)
    /\ undo_stack = UndoStackNew(1)
    /\ cur_delta_frame = FrameNew
    /\ panicked = FALSE
    /\ ID_COUNT = IdAfter(objs)
    /\ issued = IssuedFor(objs)
    /\ InitLoop
    /\ call = OpCall("none", None, FALSE)
    /\ trail = <<>>
    /\ undone = 0
    /\ log = NoLog
    /\ since = ANIMATION_LENGTH + 1
    /\ InitTick

opsFrame == <<undo_stack, tickVars, trail, undone, log, since, loopVars>>

\* Block::new_block(x, y): the id comes from new_id
OpNew(x, y) ==
    /\ ~panicked
    /\ Held = {}
    /\ LET r == NewId(ID_COUNT)
       IN /\ ID_COUNT' = r.count
          /\ panicked' = r.panic
          /\ issued' = IF r.panic THEN issued ELSE Append(issued, r.id)
          /\ objs' = IF r.panic THEN objs ELSE (r.id :> NewBlock(r.id, x, y)) @@ objs
          /\ call' = OpCall("new", r.id, ~r.panic)
    /\ UNCHANGED <<world_map, cur_delta_frame, opsFrame>>

\* The caller drops an object it owns
OpDrop(id) ==
    /\ ~panicked
    /\ id \in Held
    /\ objs' = DropObj(objs, id)
    /\ call' = OpCall("drop", None, FALSE)
    /\ UNCHANGED <<world_map, cur_delta_frame, panicked, ID_COUNT, issued, opsFrame>>

\* world_map.view(x, y, layer)
OpView(x, y, layer) ==
    /\ ~panicked
    /\ call' = OpCall("view", View(world_map, x, y, layer), FALSE)
    /\ UNCHANGED <<world_map, objs, cur_delta_frame, panicked, ID_COUNT, issued, opsFrame>>

\* world_map.take(x, y, layer): the caller owns what it returns
OpTake(x, y, layer) ==
    /\ ~panicked
    /\ Held = {}
    /\ LET r == Take(world_map, x, y, layer)
       IN /\ world_map' = r.wm
          /\ call' = OpCall("take", r.obj, FALSE)
    /\ UNCHANGED <<objs, cur_delta_frame, panicked, ID_COUNT, issued, opsFrame>>

\* world_map.take_id(x, y, layer, id)
OpTakeId(x, y, layer, id) ==
    /\ ~panicked
    /\ Held = {}
    /\ LET r == TakeId(world_map, x, y, layer, id)
       IN /\ world_map' = r.wm
          /\ call' = OpCall("take_id", r.obj, FALSE)
    /\ UNCHANGED <<objs, cur_delta_frame, panicked, ID_COUNT, issued, opsFrame>>

\* world_map.delete(x, y, layer, &mut frame)
OpDelete(x, y, layer) ==
    /\ ~panicked
    /\ Len(cur_delta_frame) < MaxDeltas
    /\ LET r == Delete(world_map, x, y, layer, cur_delta_frame)
       IN /\ world_map' = r.wm
          /\ cur_delta_frame' = r.frame
          /\ call' = OpCall("delete", None, r.ret)
    /\ UNCHANGED <<objs, panicked, ID_COUNT, issued, opsFrame>>

\* world_map.delete_id(x, y, layer, id, &mut frame)
OpDeleteId(x, y, layer, id) ==
    /\ ~panicked
    /\ Len(cur_delta_frame) < MaxDeltas
    /\ LET r == DeleteId(world_map, x, y, layer, id, cur_delta_frame)
       IN /\ world_map' = r.wm
          /\ cur_delta_frame' = r.frame
          /\ call' = OpCall("delete_id", None, r.ret)
    /\ UNCHANGED <<objs, panicked, ID_COUNT, issued, opsFrame>>

\* world_map.put(object, &mut frame) of an object the caller owns; the box is
\* moved into the call, so a panic drops it
OpPut(id) ==
    /\ ~panicked
    /\ id \in Held
    /\ Len(cur_delta_frame) < MaxDeltas
    /\ LET r == Put(world_map, objs, id, cur_delta_frame)
       IN /\ world_map' = r.wm
          /\ cur_delta_frame' = r.frame
          /\ panicked' = r.panic
          /\ objs' = IF r.panic THEN DropObj(objs, id) ELSE objs
          /\ call' = OpCall("put", id, ~r.panic)
    /\ UNCHANGED <<ID_COUNT, issued, opsFrame>>

\* world_map.put_quiet(object) of an object the caller owns
OpPutQuiet(id) ==
    /\ ~panicked
    /\ id \in Held
    /\ LET r == PutQuiet(world_map, objs, id)
       IN /\ world_map' = r.wm
          /\ panicked' = r.panic
          /\ objs' = IF r.panic THEN DropObj(objs, id) ELSE objs
          /\ call' = OpCall("put_quiet", id, ~r.panic)
    /\ UNCHANGED <<cur_delta_frame, ID_COUNT, issued, opsFrame>>

\* frame.revert(&mut world_map), after which the frame is dropped (with the
\* objects it still owns) and a fresh one taken
OpRevert ==
    /\ ~panicked
    /\ cur_delta_frame # <<>>
    /\ LET r == FrameRevert(cur_delta_frame,
                            [wm |-> world_map, objs |-> objs, panic |-> FALSE])
       IN /\ world_map' = r.wm
          /\ objs' = r.objs
          /\ panicked' = r.panic
    /\ cur_delta_frame' = FrameNew
    /\ call' = [OpCall("revert", None, FALSE) EXCEPT !.frame = cur_delta_frame]
    /\ UNCHANGED <<ID_COUNT, issued, opsFrame>>

\* The ids the by-id operations are asked for: those of the objects in the
\* grid, and the id issued last (of an object that may be elsewhere or gone)
Ids == GridIds(world_map) \cup {issued[Len(issued)]}

\* The operations of the grid on at most MaxIssued objects
NextOps ==
    \/ \E q \in NewPositions(world_map) : OpNew(q[1], q[2]) /\ Len(issued') <= MaxIssued
    \/ \E id \in DOMAIN objs : OpDrop(id)
    \/ \E q \in Coords(world_map), layer \in Layers : OpView(q[1], q[2], layer)
    \/ \E q \in Coords(world_map), layer \in Layers : OpTake(q[1], q[2], layer)
    \/ \E q \in Coords(world_map), layer \in Layers, id \in Ids :
          OpTakeId(q[1], q[2], layer, id)
    \/ \E q \in Coords(world_map), layer \in Layers : OpDelete(q[1], q[2], layer)
    \/ \E q \in Coords(world_map), layer \in Layers, id \in Ids :
          OpDeleteId(q[1], q[2], layer, id)
    \/ \E id \in DOMAIN objs : OpPut(id)
    \/ \E id \in DOMAIN objs : OpPutQuiet(id)
    \/ OpRevert

SpecOps == InitOps /\ [][NextOps]_vars

\* Construction alone: objects are constructed and dropped until the counter
\* of new_id wraps around
NextIds ==
    \/ \E q \in NewPositions(world_map) : OpNew(q[1], q[2])
    \/ \E id \in DOMAIN objs : OpDrop(id)

SpecIds == InitOps /\ [][NextIds]_vars

(* ------------------- move_solid, step by step ------------------------- *)

\* The call of move_solid((dx, dy), delta) with a fresh frame, up to its loop:
\* to_move holds the player's position and id, to_check that position
MoveSolidCall(d) ==
    /\ ~panicked
    /\ loop.pc \in {"idle", "returned"}
    /\ to_move' = (GetPlayerPos(world_map, objs) :> GetPlayerId(world_map, objs))
    /\ to_check' = <<GetPlayerPos(world_map, objs)>>
    /\ loop' = [pc |-> "run", d |-> d, iters |-> 0,
                pushed |-> <<GetPlayerPos(world_map, objs)>>, ret |-> FALSE]
    /\ cur_delta_frame' = FrameNew
    /\ UNCHANGED <<world_map, objs, undo_stack, panicked, ID_COUNT, issued, tickVars,
                   call, trail, undone, log, since>>

\* One iteration of the while loop; `return false` ends the call
LoopStep ==
    /\ loop.pc = "run"
    /\ to_check # <<>>
    /\ loop.iters < MaxIters
    /\ LET r == LoopBody(world_map, objs, loop.d, to_move, to_check)
       IN /\ to_move' = IF r.ret = "false" THEN <<>> ELSE r.to_move
          /\ to_check' = IF r.ret = "false" THEN <<>> ELSE r.to_check
          /\ loop' = [loop EXCEPT
                !.pc = IF r.ret = "false" THEN "returned" ELSE "run",
                !.iters = @ + 1,
                !.pushed = @ \o SubSeq(r.to_check, Len(to_check), Len(r.to_check))]
    /\ UNCHANGED <<world_map, objs, undo_stack, cur_delta_frame, panicked, ID_COUNT,
                   issued, tickVars, call, trail, undone, log, since>>

\* The loop's exit: to_check is empty
LoopExit ==
    /\ loop.pc = "run"
    /\ to_check = <<>>
    /\ loop' = [loop EXCEPT !.pc = "commit"]
    /\ UNCHANGED <<world_map, objs, undo_stack, cur_delta_frame, panicked, ID_COUNT,
                   issued, tickVars, call, trail, undone, log, since, to_move, to_check>>

\* The commit loop, with to_move iterated in some order, and `return true`
Commit ==
    /\ loop.pc = "commit"
    /\ \E order \in Orders(DOMAIN to_move) :
          LET st == CommitLoop([wm |-> world_map, objs |-> objs,
                                frame |-> cur_delta_frame, panic |-> FALSE],
                               to_move, order, 1, loop.d)
          IN /\ world_map' = st.wm
             /\ objs' = st.objs
             /\ cur_delta_frame' = st.frame
             /\ panicked' = st.panic
    /\ to_move' = <<>>
    /\ to_check' = <<>>
    /\ loop' = [loop EXCEPT !.pc = "returned", !.ret = TRUE]
    /\ UNCHANGED <<undo_stack, ID_COUNT, issued, tickVars, call, trail, undone, log,
                   since>>

NextResolve ==
    \/ \E d \in Dirs : MoveSolidCall(d)
    \/ LoopStep
    \/ LoopExit
    \/ Commit

\* A call that has entered the loop goes on iterating: the program has one
\* thread
SpecResolve ==
    /\ Init
    /\ [][NextResolve]_vars
    /\ WF_vars(LoopStep)
    /\ WF_vars(LoopExit)

Next ==
    \/ \E d \in Dirs : MoveStep(d)
    \/ UndoStep

Spec == Init /\ [][Next]_vars

\* History scenarios: at most MaxMoves successful moves, then undos only, two
\* more than there are moves
NextHistory ==
    \/ \E d \in Dirs : MoveStep(d) /\ trail' # <<>> /\ Len(trail') <= MaxMoves + 1
    \/ UndoStep /\ undone' <= Len(trail) + 1

SpecHistory == InitHistory /\ [][NextHistory]_vars

\* main's loop: in every tick at most MaxHeld keys are held down
NextMain == \E keys \in {K \in SUBSET Keys : Cardinality(K) <= MaxHeld} : Tick(keys)

SpecMain == InitMain /\ [][NextMain]_vars

\* Reference scenario: at most MaxRefMoves move steps in main's world
NextRef == \E d \in Dirs : MoveStep(d) /\ Len(log'.moves) <= MaxRefMoves

SpecRef == InitRef /\ [][NextRef]_vars

(* ======================= properties of the engine ===================== *)

\* The step just taken was a move_solid call / a call that returned false
MoveCalled == call.op = "move"
MoveFailed == call.op = "move" /\ ~call.ret
MoveSucceeded == call.op = "move" /\ call.ret
UndoCalled == call.op = "undo"

\* The Solid-layer stack of cell q, and the cell i steps from p in direction d
SolidAt(wm, q) == wm.map[q][3]
Ahead(p, i, d) == <<p[1] + i * d[1], p[2] + i * d[2]>>
InGrid(wm, q) == q[1] >= 0 /\ q[1] < wm.width /\ q[2] >= 0 /\ q[2] < wm.height

\* Cell q holds exactly one Solid object, and it is pushable / a wall
HoldsPushable(wm, o, q) ==
    InGrid(wm, q) /\ Len(SolidAt(wm, q)) = 1 /\ o[SolidAt(wm, q)[1]].pushable
HoldsWall(wm, o, q) ==
    InGrid(wm, q) /\ Len(SolidAt(wm, q)) = 1 /\ ~o[SolidAt(wm, q)[1]].pushable
IsEmpty(wm, q) == InGrid(wm, q) /\ SolidAt(wm, q) = <<>>

\* The number k of consecutive pushable objects the player faces in direction d
ChainLen(wm, o, d) ==
    LET p == <<o[wm.player].x, o[wm.player].y>>
    IN CHOOSE k \in 0..(wm.width + wm.height) :
          /\ \A i \in 1..k : HoldsPushable(wm, o, Ahead(p, i, d))
          /\ ~HoldsPushable(wm, o, Ahead(p, k + 1, d))

\* The cell after the line of pushed objects
AfterChain(wm, o, d) ==
    Ahead(<<o[wm.player].x, o[wm.player].y>>, ChainLen(wm, o, d) + 1, d)

\* C1: when move_solid returns false, the grid (every cell's ids and layers,
\* every object's position) is what it was before the call, no delta was put in
\* the frame, nothing was pushed on the undo stack and nothing panicked; this
\* holds of every such call, so of every repetition of a blocked move.
C1_FailedMoveChangesNothing ==
    [][MoveFailed' =>
          /\ world_map' = world_map
          /\ objs' = objs
          /\ cur_delta_frame' = <<>>
          /\ undo_stack' = undo_stack
          /\ ~panicked']_vars

\* C1 witness: a move was refused although the player faced a pushable object
\* (the obstacle stopped an object further down the line)
C1_Witness ==
    /\ MoveFailed
    /\ ChainLen(world_map, objs, call.dir) >= 1

\* C2: facing a line of k pushable objects, move_solid fails and moves nothing
\* when the cell after the line is a wall or outside the grid; when that cell is
\* empty it succeeds, the player and the k objects end one cell further in the
\* move direction, and no other object moves.
C2_PushChain ==
    [][MoveCalled' =>
          LET d == call'.dir
              p == <<objs[world_map.player].x, objs[world_map.player].y>>
              k == ChainLen(world_map, objs, d)
              after == AfterChain(world_map, objs, d)
              line == {Ahead(p, i, d) : i \in 0..k}
              moved == {SolidAt(world_map, q)[1] : q \in line}
          IN /\ (~InGrid(world_map, after) \/ HoldsWall(world_map, objs, after)) =>
                   /\ ~call'.ret
                   /\ world_map' = world_map
                   /\ objs' = objs
             /\ IsEmpty(world_map, after) =>
                   /\ call'.ret
                   /\ \A id \in moved :
                         /\ objs'[id].x = objs[id].x + d[1]
                         /\ objs'[id].y = objs[id].y + d[2]
                   /\ \A id \in DOMAIN objs \ moved : objs'[id] = objs[id]
                   /\ \A q \in DOMAIN world_map.map :
                         SolidAt(world_map', q) =
                            IF Ahead(q, -1, d) \in line
                            THEN SolidAt(world_map, Ahead(q, -1, d))
                            ELSE IF q = p THEN <<>> ELSE SolidAt(world_map, q)]_vars

\* C2 witness: the player pushed a line of two objects into an empty cell
C2_Witness ==
    /\ MoveSucceeded
    /\ call.deltas = 3

\* The ids held in any layer of cell q
IdsAt(wm, q) == UNION {{wm.map[q][l][i] : i \in 1..Len(wm.map[q][l])} : l \in 1..3}

\* C9: every object stored in a cell (x, y) has 0 <= x < width, 0 <= y < height
\* and its own position field is (x, y); the player is stored in exactly the
\* cell its position, read through the player reference, names.
C9_GridPosition ==
    /\ \A q \in DOMAIN world_map.map : \A id \in IdsAt(world_map, q) :
          /\ InGrid(world_map, q)
          /\ objs[id].x = q[1]
          /\ objs[id].y = q[2]
    /\ \A q \in DOMAIN world_map.map :
          world_map.player \in IdsAt(world_map, q) <=> q = GetPlayerPos(world_map, objs)

\* C9 witness: a frame of a two-object push was undone while an older frame is
\* still on the stack (moves and undos have both acted)
C9_Witness ==
    /\ UndoCalled
    /\ call.popped
    /\ call.deltas = 2
    /\ undo_stack.size >= 1

\* The deltas of frame f are MotionDeltas of distinct objects
DistinctMotions(f) ==
    /\ \A i \in 1..Len(f) : f[i].type = "Motion"
    /\ \A i, j \in 1..Len(f) : f[i].id = f[j].id => i = j

\* C10: a successful move_solid that moves the player and k pushed objects puts
\* exactly k + 1 MotionDeltas in the one frame of the step, one per moved object,
\* each with the object's id, the displacement and the position after the move,
\* and that frame is the one pushed on the undo stack; a pop shifts every object
\* of the popped frame back by its displacement and no other, so one pop reverts
\* the whole push.
C10_OneFramePerPush ==
    [][/\ MoveSucceeded' =>
             LET d == call'.dir
                 p == GetPlayerPos(world_map, objs)
                 k == ChainLen(world_map, objs, d)
                 moved == {SolidAt(world_map, Ahead(p, i, d))[1] : i \in 0..k}
                 f == cur_delta_frame'
             IN /\ Len(f) = k + 1
                /\ DistinctMotions(f)
                /\ {f[i].id : i \in 1..Len(f)} = moved
                /\ \A i \in 1..Len(f) :
                      /\ <<f[i].dx, f[i].dy>> = d
                      /\ <<f[i].x, f[i].y>> = GetPos(objs'[f[i].id])
                      /\ f[i].layer = "Solid"
                /\ undo_stack'.stack # <<>>
                /\ Head(undo_stack'.stack) = f
                /\ Len(undo_stack'.stack) <= Len(undo_stack.stack) + 1
       /\ (UndoCalled' /\ call'.popped) =>
             LET f == Head(undo_stack.stack)
             IN /\ \A i \in 1..Len(f) :
                      /\ GetPos(objs'[f[i].id]) = <<f[i].x - f[i].dx, f[i].y - f[i].dy>>
                      /\ f[i].id \in IdsAt(world_map', GetPos(objs'[f[i].id]))
                      /\ f[i].id \notin IdsAt(world_map', <<f[i].x, f[i].y>>)
                /\ \A id \in DOMAIN objs \ {f[i].id : i \in 1..Len(f)} : objs'[id] = objs[id]
                /\ undo_stack'.stack = Tail(undo_stack.stack)]_vars

\* C10 witness: one pop reverted a frame of three deltas (the player and two
\* pushed objects)
C10_Witness ==
    /\ UndoCalled
    /\ call.popped
    /\ call.deltas = 3

(* ----------------------- history scenarios ---------------------------- *)

\* In a history scenario: the successful moves made, and the grid now
InScenario == trail # <<>>
MovesMade == Len(trail) - 1
Now == Snapshot(world_map, objs)

\* C3: after n successful moves, n within the capacity of the undo stack, each
\* undo steps the grid back to what it was before the move it reverts, so n
\* undos restore the grid the scenario started from: every cell holds the ids it
\* held and every object has the position it had before the first move.
C3_UndoInverse ==
    (InScenario /\ MovesMade <= undo_stack.max_depth /\ undone <= MovesMade) =>
        /\ ~panicked
        /\ Now = trail[MovesMade - undone + 1]
        /\ undone = MovesMade => (world_map = trail[1].wm /\ objs = trail[1].objs)

\* C3 witness: two moves, one of which pushed an object, were both undone
C3_Witness ==
    /\ InScenario
    /\ MovesMade = 2
    /\ MovesMade <= undo_stack.max_depth
    /\ undone = MovesMade
    /\ \E id \in DOMAIN objs : id # world_map.player /\ trail[3].objs[id] # trail[1].objs[id]

\* C5: after max_depth + k successful moves (k >= 0) each of the first max_depth
\* undos changes the grid, stepping it back by one move; after them the grid is
\* the one that held after the k-th move, and every further undo leaves it so
\* (for k = 0, the (max_depth+1)-th undo leaves the initial grid).
C5_BoundedHistory ==
    (InScenario /\ MovesMade >= undo_stack.max_depth) =>
        LET depth == undo_stack.max_depth
            k == MovesMade - depth
        IN /\ ~panicked
           /\ \A i \in 1..MovesMade : trail[i] # trail[i + 1]
           /\ undone <= depth => Now = trail[MovesMade - undone + 1]
           /\ undone >= depth => Now = trail[k + 1]
           /\ undone > depth => (call.op = "undo" => ~call.popped)

\* C5 witness: one more undo than the capacity, after more moves than the capacity
C5_Witness ==
    /\ InScenario
    /\ MovesMade > undo_stack.max_depth
    /\ undone = undo_stack.max_depth + 1
    /\ UndoCalled

\* C6: a pop of an empty undo stack changes neither the grid nor the stack and
\* does not panic; this holds of every such pop, so of every repetition.
C6_EmptyPopNoOp ==
    [][(UndoCalled' /\ undo_stack.stack = <<>>) =>
          /\ world_map' = world_map
          /\ objs' = objs
          /\ undo_stack' = undo_stack
          /\ ~call'.popped
          /\ ~panicked']_vars

\* C6 witness: the second pop in a row of an empty stack (there were at most
\* MovesMade frames, and MovesMade + 2 undos)
C6_Witness ==
    /\ InScenario
    /\ UndoCalled
    /\ undone = MovesMade + 2
    /\ undo_stack.stack = <<>>

(* ----------------------- reference scenario --------------------------- *)

\* The log is n moves to the right and nothing else
RightMoves(n) ==
    /\ log.on
    /\ Len(log.moves) = n
    /\ \A i \in 1..n : log.moves[i].dir = KeyMovement("Right")

\* C8 as stated: after five moves to the right the first four have succeeded and
\* the player is at (7,3), with the wall still at (5,5).
C8_AsStated ==
    RightMoves(5) =>
        /\ \A i \in 1..4 : log.moves[i].ret
        /\ GetPlayerPos(world_map, objs) = <<7, 3>>
        /\ GetPos(objs[2]) = <<5, 5>>

\* C8 amended: each of the five moves to the right succeeds; after the n-th the
\* player is at (3+n, 3), so at (7,3) after the fourth and at (8,3) after the
\* fifth; every move moves the player alone, and the wall stays at (5,5) and the
\* block at (8,4).
C8_FiveMovesRight ==
    \A n \in 0..5 :
        RightMoves(n) =>
            /\ ~panicked
            /\ \A i \in 1..n : log.moves[i].ret
            /\ GetPlayerPos(world_map, objs) = <<3 + n, 3>>
            /\ SolidAt(world_map, <<3 + n, 3>>) = <<world_map.player>>
            /\ n >= 1 => call.deltas = 1
            /\ GetPos(objs[2]) = <<5, 5>> /\ SolidAt(world_map, <<5, 5>>) = <<2>>
            /\ GetPos(objs[3]) = <<8, 4>> /\ SolidAt(world_map, <<8, 4>>) = <<3>>

\* C8 witness: the fifth move to the right has been made
C8_Witness ==
    /\ RightMoves(5)
    /\ MoveCalled

(* --------------------------- main's loop ------------------------------ *)

Ticked == call.op = "tick"

\* C4 as stated: no tick both calls move_solid and pops the undo stack.
C4_AsStated == Ticked => ~(call.attempted /\ call.undo)

\* C4 amended: a tick calls move_solid at most once, and only when the
\* animation state is Ready; it calls pop at most once, exactly when Z is newly
\* pressed or is held with the cooldown at 0 (a successful move of the same tick
\* sets it to 0).  The two are not exclusive: when a tick does both, the move and
\* the push of its frame come first and the pop reverts that very frame, so the
\* grid ends the tick as it began it.
C4_MoveThenPop ==
    [][Ticked' =>
          /\ ~panicked'
          /\ call'.attempted => anim_state = Ready
          /\ call'.undo <=>
                \/ "Z" \in prev_keys' \ prev_keys
                \/ "Z" \in prev_keys' /\ (undo_cooldown = 0 \/ (call'.attempted /\ call'.ret))
          /\ call'.popped => call'.undo
          /\ (call'.attempted /\ call'.ret /\ call'.undo) =>
                /\ call'.popped
                /\ world_map' = world_map
                /\ objs' = objs
                /\ undo_stack'.size = 0]_vars

\* C4 witness: one tick pushed the block (a frame of two deltas) and popped
C4_Witness ==
    /\ Ticked
    /\ call.attempted /\ call.ret
    /\ call.undo /\ call.popped
    /\ call.deltas = 2

\* C7: move_solid is attempted only in a tick that starts Ready; a successful
\* move leaves Wait(ANIMATION_LENGTH), a failed move or no move leaves Ready;
\* Wait(n > 0) steps to Wait(n - 1) and Wait(0) to Ready, with n never above
\* ANIMATION_LENGTH, so Ready returns ANIMATION_LENGTH + 1 ticks after the move;
\* a move is attempted only when at least ANIMATION_LENGTH + 1 ticks, none of
\* which attempted a move, have passed since the last successful one.
C7_AnimationGating ==
    [][Ticked' =>
          /\ call'.attempted => anim_state = Ready
          /\ (call'.attempted /\ call'.ret) => anim_state' = Wait(ANIMATION_LENGTH)
          /\ (anim_state = Ready /\ ~(call'.attempted /\ call'.ret)) => anim_state' = Ready
          /\ anim_state # Ready =>
                /\ anim_state[1] = "Wait"
                /\ anim_state[2] \in 0..ANIMATION_LENGTH
                /\ anim_state' = IF anim_state[2] > 0 THEN Wait(anim_state[2] - 1) ELSE Ready
                /\ ~call'.attempted
                /\ since = ANIMATION_LENGTH - anim_state[2]
          /\ call'.attempted => since >= ANIMATION_LENGTH + 1]_vars

\* C7 witness: a successful move that took the player to (1,1), which is two
\* grid steps from its start
C7_Witness ==
    /\ Ticked
    /\ call.attempted /\ call.ret
    /\ GetPlayerPos(world_map, objs) = <<1, 1>>

(* ----------------------- the grid's operations ------------------------ *)

\* The grid, the heap and the frame are what they were, and nothing panicked
OpChangedNothing ==
    /\ world_map' = world_map
    /\ objs' = objs
    /\ cur_delta_frame' = cur_delta_frame
    /\ ~panicked'

\* C11: called with coordinates outside the grid, view, take and take_id return
\* None and delete and delete_id return false, and the grid, the objects and
\* the frame are left as they were (no step that does otherwise is one of these
\* calls with such coordinates); put and put_quiet of an object whose own
\* position is outside the grid panic, store nothing and record nothing (and
\* with a position inside the grid they store the object in that cell).
C11_OutOfBounds ==
    [][LET outside == {q \in Coords(world_map) : Invalid(world_map, q[1], q[2])}
           absent == call'.obj = None /\ OpChangedNothing
           refused == ~call'.ret /\ OpChangedNothing
       IN /\ call'.op = "view" =>
                \/ absent
                \/ \A q \in outside, layer \in Layers : ~OpView(q[1], q[2], layer)
          /\ call'.op = "take" =>
                \/ absent
                \/ \A q \in outside, layer \in Layers : ~OpTake(q[1], q[2], layer)
          /\ call'.op = "take_id" =>
                \/ absent
                \/ \A q \in outside, layer \in Layers, id \in Ids :
                      ~OpTakeId(q[1], q[2], layer, id)
          /\ call'.op = "delete" =>
                \/ refused
                \/ \A q \in outside, layer \in Layers : ~OpDelete(q[1], q[2], layer)
          /\ call'.op = "delete_id" =>
                \/ refused
                \/ \A q \in outside, layer \in Layers, id \in Ids :
                      ~OpDeleteId(q[1], q[2], layer, id)
          /\ call'.op \in {"put", "put_quiet"} =>
                \A id \in DOMAIN objs :
                   (OpPut(id) \/ OpPutQuiet(id)) =>
                      IF Invalid(world_map, objs[id].x, objs[id].y)
                      THEN /\ panicked'
                           /\ world_map' = world_map
                           /\ cur_delta_frame' = cur_delta_frame
                           /\ id \notin GridIds(world_map')
                      ELSE /\ ~panicked'
                           /\ id \in CellIds(world_map'.map[GetPos(objs[id])])]_vars

\* C11 witness: a put of an object constructed outside the grid has panicked
\* and the object is not in the grid
C11_Witness ==
    /\ call.op = "put"
    /\ panicked
    /\ call.obj \notin GridIds(world_map)

\* C12: every id new_id returns is not 0, is greater than every id returned
\* before (so equal to none of them) and is the id of the object constructed;
\* the call that finds the counter wrapped around to 0 panics and returns
\* nothing.
C12_IdAllocation ==
    [][call'.op = "new" =>
       \A q \in NewPositions(world_map) :
          OpNew(q[1], q[2]) =>
             IF ID_COUNT = 0
             THEN /\ panicked'
                  /\ issued' = issued
                  /\ objs' = objs
             ELSE /\ ~panicked'
                  /\ call'.obj # 0
                  /\ \A i \in 1..Len(issued) : issued[i] < call'.obj
                  /\ issued' = Append(issued, call'.obj)
                  /\ call'.obj \in DOMAIN objs'
                  /\ objs'[call'.obj].id = call'.obj]_vars

\* C12 witness: every id of the counter's width was returned and the next call
\* has panicked
C12_Witness ==
    /\ call.op = "new"
    /\ panicked
    /\ Len(issued) = IdModulus - 1

\* C17: reverting the CreationDelta that put(A) recorded for cell p and layer L
\* removes (and drops) the object on top of layer L at p at that time, whatever
\* its id, and nothing else: when another object was placed on top of A since,
\* that object goes and A stays; when the layer is empty nothing changes.
C17_CreationRevertByPosition ==
    [][(/\ call'.op = "revert"
        /\ Len(cur_delta_frame) = 1
        /\ cur_delta_frame[1].type = "Creation"
        /\ OpRevert) =>
          LET c == cur_delta_frame[1]
              s == CellLayer(world_map.map[c.pos], c.layer)
          IN IF s = <<>>
             THEN world_map' = world_map /\ objs' = objs
             ELSE /\ world_map' = [world_map EXCEPT
                        !.map[c.pos][LayerIndex(c.layer) + 1] = SubSeq(s, 1, Len(s) - 1)]
                  /\ objs' = DropObj(objs, s[Len(s)])
                  /\ (s[Len(s)] # c.id /\ c.id \in GridIds(world_map)) =>
                        c.id \in CellIds(world_map'.map[c.pos])]_vars

\* C17 witness: the CreationDelta of an object was reverted and that object is
\* still in its cell (another one was on top of it)
C17_Witness ==
    /\ call.op = "revert"
    /\ Len(call.frame) = 1
    /\ call.frame[1].type = "Creation"
    /\ call.frame[1].id \in CellIds(world_map.map[call.frame[1].pos])

\* C18: delete on a cell of the grid whose layer is not empty removes the top
\* object of that layer, delete_id the first object with the id asked for; each
\* appends one DeletionDelta owning the removed object and returns true, and
\* returns false and changes nothing when there is no such object (a step is
\* such a call only if it does so).  Reverting
\* the delta puts that same object back on its layer in the cell its position
\* names, records no delta and leaves every other object where it was.
C18_DeletionRoundTrip ==
    [][/\ call'.op = "delete" =>
          \A q \in Cells(world_map.width, world_map.height), layer \in Layers :
             LET s == CellLayer(world_map.map[q], layer)
             IN \/ IF s = <<>>
                   THEN ~call'.ret /\ OpChangedNothing
                   ELSE /\ call'.ret
                        /\ world_map' = [world_map EXCEPT
                              !.map[q][LayerIndex(layer) + 1] = SubSeq(s, 1, Len(s) - 1)]
                        /\ cur_delta_frame' =
                              Append(cur_delta_frame, DeletionDelta(s[Len(s)]))
                        /\ objs' = objs
                \/ ~OpDelete(q[1], q[2], layer)
       /\ call'.op = "delete_id" =>
          \A q \in Cells(world_map.width, world_map.height), layer \in Layers, id \in Ids :
             LET s == CellLayer(world_map.map[q], layer)
                 hits == {i \in 1..Len(s) : s[i] = id}
             IN \/ IF hits = {}
                   THEN ~call'.ret /\ OpChangedNothing
                   ELSE /\ call'.ret
                        /\ world_map' = [world_map EXCEPT
                              !.map[q][LayerIndex(layer) + 1] =
                                 RemoveAt(s, CHOOSE i \in hits : \A j \in hits : i <= j)]
                        /\ cur_delta_frame' = Append(cur_delta_frame, DeletionDelta(id))
                        /\ objs' = objs
                \/ ~OpDeleteId(q[1], q[2], layer, id)
       /\ (/\ call'.op = "revert"
           /\ Len(cur_delta_frame) = 1
           /\ cur_delta_frame[1].type = "Deletion"
           /\ OpRevert) =>
             LET id == cur_delta_frame[1].object
                 p == GetPos(objs[id])
             IN /\ world_map' = [world_map EXCEPT
                      !.map[p][LayerIndex(GetLayer(objs[id])) + 1] = Append(@, id)]
                /\ objs' = objs
                /\ cur_delta_frame' = <<>>
                /\ ~panicked']_vars

\* C18 witness: the DeletionDelta of an object was reverted and the object is
\* back in the cell its position names
C18_Witness ==
    /\ call.op = "revert"
    /\ Len(call.frame) = 1
    /\ call.frame[1].type = "Deletion"
    /\ call.frame[1].object \in CellIds(world_map.map[GetPos(objs[call.frame[1].object])])

(* ------------------- frames, orders and occupancy --------------------- *)

\* No frame the stack holds is empty
NoEmptyFrame(us) == \A i \in 1..Len(us.stack) : us.stack[i] # <<>>

\* Object id as frame f takes it back: shifted by the inverse of its delta
ShiftedBack(f, o, id) ==
    LET hits == {i \in 1..Len(f) : f[i].id = id}
    IN IF hits = {}
       THEN o[id]
       ELSE LET i == CHOOSE j \in hits : TRUE
            IN [o[id] EXCEPT !.x = @ - f[i].dx, !.y = @ - f[i].dy]

\* C13: a tick whose move fails, or that attempts no move, leaves its frame
\* empty and pushes nothing, and the stack never holds an empty frame; a tick
\* whose move succeeds puts that move's frame at the front of the stack.  So
\* the frame a pop finds after failed moves is that of the most recent
\* successful move not yet undone, and the pop shifts its objects back.
C13_OnlyNonTrivialFrames ==
    [][Ticked' =>
          /\ NoEmptyFrame(undo_stack')
          /\ (call'.attempted /\ call'.ret /\ ~call'.undo) =>
                /\ cur_delta_frame' # <<>>
                /\ Head(undo_stack'.stack) = cur_delta_frame'
          /\ ~(call'.attempted /\ call'.ret) =>
                /\ cur_delta_frame' = <<>>
                /\ ~call'.undo => undo_stack' = undo_stack
                /\ call'.undo =>
                      IF undo_stack.size > 0
                      THEN LET f == Head(undo_stack.stack)
                           IN /\ undo_stack'.stack = Tail(undo_stack.stack)
                              /\ objs' = [id \in DOMAIN objs |-> ShiftedBack(f, objs, id)]
                              /\ objs' # objs
                      ELSE /\ undo_stack' = undo_stack
                           /\ world_map' = world_map
                           /\ objs' = objs]_vars

\* C13 witness: a tick whose move failed popped a frame all the same
C13_Witness ==
    /\ Ticked
    /\ call.attempted /\ ~call.ret
    /\ call.undo /\ call.popped

\* C14: whichever order the commit loop of a successful move_solid took the
\* entries of to_move in, the grid and the positions it leaves are those every
\* other order leaves, and in no order does a take_id fail.
C14_CommitOrderIndependence ==
    [][MoveSucceeded' =>
          \A order \in CommitOrders(world_map, objs, call'.dir) :
             LET r == MoveSolid(world_map, objs, call'.dir, FrameNew, order)
             IN /\ r.ret
                /\ ~r.st.panic
                /\ r.st.wm = world_map'
                /\ r.st.objs = objs']_vars

\* C14 witness: a push of two objects was committed in an order that did not
\* start with the player
C14_Witness ==
    /\ MoveSucceeded
    /\ call.deltas = 3
    /\ cur_delta_frame[1].id # world_map.player

RECURSIVE Reverse(_)
Reverse(s) == IF s = <<>> THEN <<>> ELSE Append(Reverse(Tail(s)), Head(s))

\* C15: for the frame a successful move_solid filled, reverting the deltas in
\* insertion order (as DeltaFrame::revert does) and reverting them in reverse
\* order both give back the grid and the positions that held before the move.
C15_RevertOrderIndependence ==
    [][MoveSucceeded' =>
          LET f == cur_delta_frame'
              after == [wm |-> world_map', objs |-> objs', panic |-> FALSE]
              before == [wm |-> world_map, objs |-> objs, panic |-> FALSE]
          IN /\ FrameRevert(f, after) = before
             /\ FrameRevert(Reverse(f), after) = before]_vars

\* C15 witness: a push of two objects whose frame holds the player's delta
\* last (reverting in insertion order puts a pushed object back first)
C15_Witness ==
    /\ MoveSucceeded
    /\ call.deltas = 3
    /\ cur_delta_frame[3].id = world_map.player

\* C16: every cell holds at most one Solid-layer object.
C16_SingleOccupancy ==
    \A q \in DOMAIN world_map.map : Len(SolidAt(world_map, q)) <= 1

\* C16 witness: a push of two objects was undone while an older frame is still
\* on the stack
C16_Witness ==
    /\ UndoCalled
    /\ call.popped
    /\ call.deltas = 3
    /\ undo_stack.size = 1

\* C19 as stated: the size counter is the number of frames the deque holds and
\* that number is at most max_depth.
C19_AsStated ==
    /\ undo_stack.size = Len(undo_stack.stack)
    /\ Len(undo_stack.stack) <= undo_stack.max_depth

\* C19 for a capacity of at least 1
C19_PositiveCapacity == undo_stack.max_depth >= 1 => C19_AsStated

\* C19: with capacity 0 a frame was pushed and is held, with size still 0
C19_ZeroCapacity ==
    /\ undo_stack.max_depth = 0
    /\ undo_stack.size = 0
    /\ Len(undo_stack.stack) = 1

\* C20: no tick panics: the commit phase and the reverts find their objects and
\* put them back inside the grid; the frame at the front of the stack names,
\* for each of its objects, the cell that holds it now and a cell inside the
\* grid to take it back to.
C20_NoLookupFailure ==
    /\ ~panicked
    /\ undo_stack.stack # <<>> =>
          \A i \in 1..Len(Head(undo_stack.stack)) :
             LET delta == Head(undo_stack.stack)[i]
             IN /\ InGrid(world_map, <<delta.x, delta.y>>)
                /\ delta.id \in CellIds(world_map.map[<<delta.x, delta.y>>])
                /\ InGrid(world_map, <<delta.x - delta.dx, delta.y - delta.dy>>)

\* C20 witness: a pop took the player back to (1, 1), which takes three
\* successful moves at least while the stack keeps one frame
C20_Witness ==
    /\ Ticked
    /\ call.undo /\ call.popped
    /\ ~call.attempted
    /\ GetPlayerPos(world_map, objs) = <<1, 1>>

\* The places of the grid that hold an object: cell, layer index, index in the
\* layer's Vec
Places(wm) ==
    UNION {{<<q, k, i>> : i \in 1..Len(wm.map[q][k])} :
              q \in DOMAIN wm.map, k \in 1..NUMBER_OF_LAYERS}

\* C21: object conservation: no move step and no undo step changes the set of
\* ids present in the grid or the set of objects; after the step the grid has
\* as many occupied places as ids, so that every id is held exactly once (none
\* duplicated); a wall is the object it was, in the cell at its position; and
\* the player, still the same object, is in the Solid layer of the cell at its
\* own position.
C21_ObjectConservation ==
    [][/\ GridIds(world_map') = GridIds(world_map)
       /\ DOMAIN objs' = DOMAIN objs
       /\ Cardinality(Places(world_map')) = Cardinality(GridIds(world_map'))
       /\ \A id \in DOMAIN objs :
             /\ objs'[id].id = id
             /\ ~Pushable(objs[id]) =>
                   /\ objs'[id] = objs[id]
                   /\ id \in CellIds(world_map'.map[GetPos(objs[id])])
       /\ world_map'.player = world_map.player
       /\ LET s == CellLayer(world_map'.map[GetPlayerPos(world_map', objs')], "Solid")
          IN \E i \in 1..Len(s) : s[i] = world_map'.player]_vars

\* C21 witness: an undo step popped a frame of two deltas or more (the player
\* and what it had pushed) on a grid that holds a wall
C21_Witness ==
    /\ call.op = "undo"
    /\ call.popped
    /\ call.deltas >= 2
    /\ \E id \in GridIds(world_map) : ~Pushable(objs[id])

\* C22: termination of push resolution: every call of move_solid that has
\* entered its loop leaves it, by `return false` or with to_check empty; while
\* it runs no position is pushed on to_check twice, to_check holds positions
\* of to_move only, and the iterations made are at most the cells of the grid;
\* when the loop is left with to_check empty, to_move and the iterations made
\* are those of the check phase as the move steps compute it.
C22_PushResolutionTerminates ==
    /\ [](/\ loop.iters <= world_map.width * world_map.height
          /\ \A i, j \in 1..Len(loop.pushed) : loop.pushed[i] = loop.pushed[j] => i = j
          /\ \A i \in 1..Len(to_check) : to_check[i] \in DOMAIN to_move
          /\ loop.pc = "commit" =>
                LET r == Resolve(world_map, objs, loop.d)
                IN r.ok /\ r.to_move = to_move /\ r.iters = loop.iters)
    /\ (loop.pc = "run") ~> (loop.pc \in {"commit", "returned"})

\* C22 witness: a call returned true after three iterations, having pushed
\* the positions of the player and of two objects in line
C22_Witness ==
    /\ loop.pc = "returned"
    /\ loop.ret
    /\ loop.iters = 3
    /\ Len(loop.pushed) = 3

====
